---- MODULE Spec2Model ----
(***************************************************************************)
(* Model of tensorflow_model_analysis/eval_saved_model/export.py:          *)
(* export_eval_savedmodel (graph construction, node registration, the      *)
(* temp-directory + rename materialisation) and the export strategy's      *)
(* export_fn (export, then garbage collection of old exports).             *)
(***************************************************************************)
EXTENDS Naturals, Sequences, FiniteSets, TLC

\* ---------------------------------------------------------------- bounds
MaxKeys == 2      \* largest mapping of features / labels / predictions / metrics
MaxTime == 2      \* latest wall-clock second an export may start to allocate at
MaxCalls == 2     \* invocations of export_fn in SpecRepeat
MaxKeep == 2      \* largest exports_to_keep the strategy is built with

\* ------------------------------------------------- tensors and structures
\* A graph node: the op that produced it, the key it belongs to and the
\* number of identity ops stacked on it.
Tensor(op, key) == [op |-> op, key |-> key, identity |-> 0]

\* Names a user's mapping may use, in the mapping's iteration order (which is
\* not the sorted order).
KeyPool == <<"k2", "k1", "k4", "k3">>

Min(a, b) == IF a < b THEN a ELSE b

\* A TensorTypeMaybeDict: a bare tensor, or a dict given by its items in
\* iteration order.
Bare(t) == [dict |-> FALSE, items |-> <<<<"", t>>>>]
Dict(items) == [dict |-> TRUE, items |-> items]

\* The value of shape n built from op: n = 0..MaxKeys is a dict of n entries,
\* anything else (BareShape) a bare tensor.
BareShape == MaxKeys + 1
Shapes == 0..(MaxKeys + 1)
DictShapes == 0..MaxKeys
MaybeDict(op, n) ==
  IF n = BareShape THEN Bare(Tensor(op, ""))
  ELSE Dict([i \in 1..Min(n, Len(KeyPool)) |-> <<KeyPool[i], Tensor(op, KeyPool[i])>>])

\* eval_metric_ops: a dict of key -> (value_op, update_op).
MetricOps(n) ==
  [i \in 1..Min(n, Len(KeyPool)) |->
     <<KeyPool[i], Tensor("metric_value", KeyPool[i]), Tensor("metric_update", KeyPool[i])>>]

\* util.wrap_tensor_or_dict_of_tensors_in_identity
Identity(t) == [t EXCEPT !.identity = @ + 1]
wrap_tensor_or_dict_of_tensors_in_identity(v) ==
  [v EXCEPT !.items = [i \in 1..Len(v.items) |-> <<v.items[i][1], Identity(v.items[i][2])>>]]

\* ------------------------------------------------------------- encoding
KEY_SUFFIX == "key"
NODE_SUFFIX == "node"
VALUE_OP_SUFFIX == "value_op"
UPDATE_OP_SUFFIX == "update_op"
METRICS_COLLECTION == "metrics"
PREDICTIONS_COLLECTION == "predictions"
LABELS_COLLECTION == "labels"
FEATURES_COLLECTION == "features"
INPUT_EXAMPLE_COLLECTION == "input_example"
TFMA_VERSION_COLLECTION == "tfma_version"
DEFAULT_PREDICTIONS_DICT_KEY == "predictions"
DEFAULT_LABELS_DICT_KEY == "labels"
VERSION_STRING == "version"

encode_key(key) == <<"key", key>>
encode_tensor_node(node) == <<"tensor_info", node>>
decode_key(e) == e[2]
decode_tensor_node(e) == e[2]

\* '%s/%s' % (prefix, suffix)
CollectionName(prefix, suffix) == prefix \o "/" \o suffix

NodeCollections ==
  {CollectionName(p, s) : p \in {PREDICTIONS_COLLECTION, LABELS_COLLECTION, FEATURES_COLLECTION},
                          s \in {KEY_SUFFIX, NODE_SUFFIX}}
MetricCollections ==
  {CollectionName(METRICS_COLLECTION, s) : s \in {KEY_SUFFIX, VALUE_OP_SUFFIX, UPDATE_OP_SUFFIX}}
CollectionNames ==
  NodeCollections \cup MetricCollections \cup {INPUT_EXAMPLE_COLLECTION, TFMA_VERSION_COLLECTION}

\* A fresh tf.Graph: every collection reads as the empty list.
EmptyCollections == [n \in CollectionNames |-> <<>>]

\* tf.add_to_collection
add_to_collection(c, name, value) == [c EXCEPT ![name] = Append(@, value)]

\* Mutant: the node goes to the KEY collection as well.
encode_and_add_to_key_collection_twice(c, collection_prefix, key, node) ==
  add_to_collection(
    add_to_collection(c, CollectionName(collection_prefix, KEY_SUFFIX), encode_key(key)),
    CollectionName(collection_prefix, KEY_SUFFIX), encode_tensor_node(node))

\* _encode_and_add_to_node_collection
encode_and_add_to_node_collection(c, collection_prefix, key, node) ==
  add_to_collection(
    add_to_collection(c, CollectionName(collection_prefix, KEY_SUFFIX), encode_key(key)),
    CollectionName(collection_prefix, NODE_SUFFIX), encode_tensor_node(node))

\* One pass of the metric loop body: KEY, VALUE_OP and UPDATE_OP of one metric.
add_metric_to_collections(c, user_metric_key, value_op, update_op) ==
  add_to_collection(
    add_to_collection(
      add_to_collection(c, CollectionName(METRICS_COLLECTION, KEY_SUFFIX),
                        encode_key(user_metric_key)),
      CollectionName(METRICS_COLLECTION, VALUE_OP_SUFFIX), encode_tensor_node(value_op)),
    CollectionName(METRICS_COLLECTION, UPDATE_OP_SUFFIX), encode_tensor_node(update_op))

\* if not isinstance(v, dict): v = {default_key: v}
to_dict(v, default_key) ==
  IF v.dict THEN v ELSE Dict(<<<<default_key, v.items[1][2]>>>>)

\* --------------------------------------------------------------- paths
\* A path under export_dir_base: its directory, and its leaf name as a prefix
\* followed by the timestamp.
EXPORT_DIR_BASE == "export_dir_base"
TimestampedPath(t) == [dirname |-> EXPORT_DIR_BASE, prefix |-> "", timestamp |-> t]

\* Mutant: the temp name is the final name itself.
get_temp_export_dir_in_place(timestamped_export_dir) == timestamped_export_dir

\* _get_temp_export_dir
get_temp_export_dir(timestamped_export_dir) ==
  [timestamped_export_dir EXCEPT !.prefix = "temp-" \o @]

\* ---------------------------------------------------------------- state
VARIABLES
  pc,               \* the statement the invocation is at
  calls,            \* invocations of export_fn so far
  exports_to_keep,  \* make_export_strategy's argument: <<>> (None) or <<n>>
  estimator,        \* the kind of object passed as estimator
  checkpoint_path,  \* <<>> (None) or <<path>>
  latest,           \* what tf.train.latest_checkpoint(model_dir) finds
  receiver,         \* <<>> or <<EvalInputReceiver>>
  has_global_step,  \* the graph holds a global step
  random_seed_set,  \* the graph-level seed is set
  wrapped,          \* <<>> or <<[features, labels]>> identity-wrapped
  model_fn_call,    \* <<>> or <<the arguments model_fn was called with>>
  estimator_spec,   \* <<>> or <<EstimatorSpec>>
  collections,      \* the graph's collections
  i,                \* entries of the current loop already registered
  export_dir,       \* <<>> or <<path>>
  temp_export_dir,  \* <<>> or <<path>>
  fs,               \* the directories on disk: path -> content
  clock,            \* the last wall-clock second read
  error,            \* "" or the exception raised to the caller
  result,           \* <<>> or <<the export_dir returned>>
  fs0,              \* the directories on disk when the invocation began
  gc_call           \* <<>> or <<the arguments and effect of the garbage collector call>>

vars == <<pc, calls, exports_to_keep, estimator, checkpoint_path, latest, receiver,
          has_global_step, random_seed_set, wrapped, model_fn_call, estimator_spec,
          collections, i, export_dir, temp_export_dir, fs, clock, error, result, fs0,
          gc_call>>

Estimators == {"core", "contrib", "other"}

\* Mutant: the global step and the seed come before the receiver function.
OrderGlobalStepFirst ==
  <<"create_global_step", "eval_input_receiver_fn", "wrap_in_identity", "model_fn",
    "tfma_version", "metrics", "predictions", "input_example", "labels", "features",
    "checkpoint", "get_timestamped_dir", "restore", "builder", "save", "rename",
    "return">>

\* The statements of export_eval_savedmodel, in program order.
Order ==
  <<"eval_input_receiver_fn", "create_global_step", "wrap_in_identity", "model_fn",
    "tfma_version", "metrics", "predictions", "input_example", "labels", "features",
    "checkpoint", "get_timestamped_dir", "restore", "builder", "save", "rename",
    "return">>

IndexOf(p) == CHOOSE k \in 1..Len(Order) : Order[k] = p
After(p) == Order[IndexOf(p) + 1]
Running == pc \in {Order[k] : k \in 1..Len(Order)}

\* What the graph context and the function's frame hold before anything ran.
FreshLocals ==
  /\ has_global_step' = FALSE
  /\ random_seed_set' = FALSE
  /\ wrapped' = <<>>
  /\ model_fn_call' = <<>>
  /\ estimator_spec' = <<>>
  /\ collections' = EmptyCollections
  /\ i' = 0
  /\ export_dir' = <<>>
  /\ temp_export_dir' = <<>>

Init ==
  /\ pc = "idle"
  /\ calls = 0
  /\ exports_to_keep \in {<<>>} \cup {<<n>> : n \in 1..MaxKeep}
  /\ estimator = "core"
  /\ checkpoint_path = <<>>
  /\ latest = <<>>
  /\ receiver = <<>>
  /\ has_global_step = FALSE
  /\ random_seed_set = FALSE
  /\ wrapped = <<>>
  /\ model_fn_call = <<>>
  /\ estimator_spec = <<>>
  /\ collections = EmptyCollections
  /\ i = 0
  /\ export_dir = <<>>
  /\ temp_export_dir = <<>>
  /\ fs = <<>>
  /\ clock = 0
  /\ error = ""
  /\ result = <<>>
  /\ fs0 = <<>>
  /\ gc_call = <<>>

\* An exception leaves export_eval_savedmodel: the graph and the locals are
\* gone, the disk stays as it is, export_fn does not catch it.
Raise(e) ==
  /\ pc' = "raised"
  /\ error' = e
  /\ FreshLocals
  /\ UNCHANGED <<calls, exports_to_keep, estimator, checkpoint_path, latest, receiver,
                 fs, clock, result, fs0, gc_call>>

\* export_fn is invoked: it calls export_eval_savedmodel with its arguments.
ExportFn(maxCalls) ==
  /\ pc = "idle"
  /\ calls < maxCalls
  /\ calls' = calls + 1
  /\ pc' = Order[1]
  /\ estimator' \in Estimators
  /\ checkpoint_path' \in {<<>>, <<"checkpoint_path">>}
  /\ latest' \in {<<>>, <<"model_dir/latest">>}
  /\ receiver' = <<>>
  /\ error' = ""
  /\ result' = <<>>
  /\ gc_call' = <<>>
  /\ fs0' = fs
  /\ FreshLocals
  /\ UNCHANGED <<exports_to_keep, fs, clock>>

\* eval_input_receiver = eval_input_receiver_fn()
InvokeReceiver(shapes) ==
  /\ pc = "eval_input_receiver_fn"
  /\ \E f \in shapes, l \in shapes :
       receiver' = <<[features |-> MaybeDict("parse_example", f),
                      receiver_tensors |->
                        Dict(<<<<"examples", Tensor("placeholder", "examples")>>>>),
                      labels |-> MaybeDict("label", l)]>>
  /\ pc' = After(pc)
  /\ UNCHANGED <<calls, exports_to_keep, estimator, checkpoint_path, latest,
                 has_global_step, random_seed_set, wrapped, model_fn_call,
                 estimator_spec, collections, i, export_dir, temp_export_dir, fs,
                 clock, error, result, fs0, gc_call>>

\* tf.train.create_global_step(g); tf.set_random_seed(...)
CreateGlobalStep ==
  /\ pc = "create_global_step"
  /\ has_global_step' = TRUE
  /\ random_seed_set' = TRUE
  /\ pc' = After(pc)
  /\ UNCHANGED <<calls, exports_to_keep, estimator, checkpoint_path, latest, receiver,
                 wrapped, model_fn_call, estimator_spec, collections, i, export_dir,
                 temp_export_dir, fs, clock, error, result, fs0, gc_call>>

\* wrapped_features, wrapped_labels
WrapInIdentity ==
  /\ pc = "wrap_in_identity"
  /\ wrapped' =
       <<[features |-> wrap_tensor_or_dict_of_tensors_in_identity(receiver[1].features),
          labels |-> wrap_tensor_or_dict_of_tensors_in_identity(receiver[1].labels)]>>
  /\ pc' = After(pc)
  /\ UNCHANGED <<calls, exports_to_keep, estimator, checkpoint_path, latest, receiver,
                 has_global_step, random_seed_set, model_fn_call, estimator_spec,
                 collections, i, export_dir, temp_export_dir, fs, clock, error, result,
                 fs0, gc_call>>

\* Mutant: whatever is not a contrib estimator is taken for a core one.
ModelFnBranchCoreByDefault(e) == IF e = "contrib" THEN "contrib" ELSE "core"

\* isinstance(estimator, tf.estimator.Estimator): the branch taken.
ModelFnBranch(e) == IF e = "core" THEN "core" ELSE "contrib"

\* Mutant: model_fn is fed the receiver's own tensors.
ModelFnArgumentsRaw ==
  [features |-> receiver[1].features, labels |-> receiver[1].labels]

\* The features and labels handed to estimator.model_fn.
ModelFnArguments ==
  [features |-> wrapped[1].features, labels |-> wrapped[1].labels]

\* estimator.model_fn(...) in either branch, and the EstimatorSpec kept.
ModelFn(shapes) ==
  /\ pc = "model_fn"
  /\ model_fn_call' = <<[features |-> ModelFnArguments.features,
                         labels |-> ModelFnArguments.labels,
                         branch |-> ModelFnBranch(estimator)]>>
  /\ \E p \in shapes, m \in shapes \cap DictShapes :
       estimator_spec' =
         <<[loss |-> IF ModelFnBranch(estimator) = "core" THEN "model_loss"
                     ELSE "constant_0",
            predictions |-> MaybeDict("prediction", p),
            eval_metric_ops |-> MetricOps(m)]>>
  /\ pc' = After(pc)
  /\ UNCHANGED <<calls, exports_to_keep, estimator, checkpoint_path, latest, receiver,
                 has_global_step, random_seed_set, wrapped, collections, i, export_dir,
                 temp_export_dir, fs, clock, error, result, fs0, gc_call>>

\* The parts of the state the registration statements leave alone.
outside_graph ==
  <<calls, exports_to_keep, estimator, checkpoint_path, latest, receiver,
    has_global_step, random_seed_set, wrapped, model_fn_call, estimator_spec,
    export_dir, temp_export_dir, fs, clock, error, result, fs0, gc_call>>

\* tf.add_to_collection(encoding.TFMA_VERSION_COLLECTION, version.VERSION_STRING)
WriteVersion ==
  /\ pc = "tfma_version"
  /\ collections' = add_to_collection(collections, TFMA_VERSION_COLLECTION, VERSION_STRING)
  /\ pc' = After(pc)
  /\ UNCHANGED <<i>>
  /\ UNCHANGED outside_graph

\* for user_metric_key, (value_op, update_op) in eval_metric_ops.items(): one pass
\* of the loop, or its end.
RegisterMetrics ==
  /\ pc = "metrics"
  /\ LET items == estimator_spec[1].eval_metric_ops IN
       IF i < Len(items)
       THEN /\ collections' = add_metric_to_collections(
                                collections, items[i + 1][1], items[i + 1][2], items[i + 1][3])
            /\ i' = i + 1
            /\ pc' = pc
       ELSE /\ i' = 0
            /\ pc' = After(pc)
            /\ UNCHANGED collections
  /\ UNCHANGED outside_graph

\* Mutant: a bare prediction is filed under the labels default key.
PredictionsDictLabelsKey == to_dict(estimator_spec[1].predictions, DEFAULT_LABELS_DICT_KEY)

\* The predictions dict the loop at "Save all prediction nodes" iterates.
PredictionsDict == to_dict(estimator_spec[1].predictions, DEFAULT_PREDICTIONS_DICT_KEY)

\* The labels dict the loop at "Save all label nodes" iterates.
LabelsDict == to_dict(receiver[1].labels, DEFAULT_LABELS_DICT_KEY)

\* The value the loop at "Save features" calls .items() on.
FeaturesValue == receiver[1].features

\* One pass of a loop over items registering into the bucket prefix, or its end.
RegisterNodes(items, prefix) ==
  IF i < Len(items)
  THEN /\ collections' = encode_and_add_to_node_collection(
                           collections, prefix, items[i + 1][1], items[i + 1][2])
       /\ i' = i + 1
       /\ pc' = pc
  ELSE /\ i' = 0
       /\ pc' = After(pc)
       /\ UNCHANGED collections

RegisterPredictions ==
  /\ pc = "predictions"
  /\ RegisterNodes(PredictionsDict.items, PREDICTIONS_COLLECTION)
  /\ UNCHANGED outside_graph

\* The placeholder receiver_tensors['examples'].
ExamplesNode ==
  LET items == receiver[1].receiver_tensors.items
  IN items[CHOOSE k \in 1..Len(items) : items[k][1] = "examples"][2]

RegisterInputExample ==
  /\ pc = "input_example"
  /\ collections' = add_to_collection(collections, INPUT_EXAMPLE_COLLECTION,
                                      encode_tensor_node(ExamplesNode))
  /\ pc' = After(pc)
  /\ UNCHANGED <<i>>
  /\ UNCHANGED outside_graph

RegisterLabels ==
  /\ pc = "labels"
  /\ RegisterNodes(LabelsDict.items, LABELS_COLLECTION)
  /\ UNCHANGED outside_graph

\* eval_input_receiver.features.items(): a bare tensor has no items().
RegisterFeatures ==
  /\ pc = "features"
  /\ IF FeaturesValue.dict
     THEN /\ RegisterNodes(FeaturesValue.items, FEATURES_COLLECTION)
          /\ UNCHANGED outside_graph
     ELSE Raise("AttributeError")

\* The parts of the state the resolution of the checkpoint leaves alone.
outside_checkpoint ==
  <<calls, exports_to_keep, estimator, latest, receiver, has_global_step,
    random_seed_set, wrapped, model_fn_call, estimator_spec, collections, i,
    export_dir, temp_export_dir, fs, clock, error, result, fs0, gc_call>>

\* Mutant: the result of the latest-checkpoint lookup is not checked.
ResolveCheckpointUnchecked ==
  /\ pc = "checkpoint"
  /\ checkpoint_path' = IF checkpoint_path = <<>> THEN latest ELSE checkpoint_path
  /\ pc' = After(pc)
  /\ UNCHANGED outside_checkpoint

\* if not checkpoint_path: latest_checkpoint(model_dir), ValueError when none.
ResolveCheckpoint ==
  /\ pc = "checkpoint"
  /\ IF checkpoint_path = <<>>
     THEN IF latest = <<>>
          THEN Raise("ValueError")
          ELSE /\ checkpoint_path' = latest
               /\ pc' = After(pc)
               /\ UNCHANGED outside_checkpoint
     ELSE /\ pc' = After(pc)
          /\ UNCHANGED checkpoint_path
          /\ UNCHANGED outside_checkpoint

\* estimator_util.get_timestamped_dir: the first second from now on with no
\* directory of that name under export_dir_base (it sleeps a second per retry).
get_timestamped_dir(now) ==
  LET free(t) == TimestampedPath(t) \notin DOMAIN fs
      t == CHOOSE t \in now..(now + Cardinality(DOMAIN fs)) :
             free(t) /\ \A u \in now..t : u < t => ~free(u)
  IN TimestampedPath(t)

outside_paths ==
  <<calls, exports_to_keep, estimator, checkpoint_path, latest, receiver,
    has_global_step, random_seed_set, wrapped, model_fn_call, estimator_spec,
    collections, i, fs, error, result, fs0, gc_call>>

\* export_dir = get_timestamped_dir(export_dir_base); temp_export_dir = ...
AllocatePaths ==
  /\ pc = "get_timestamped_dir"
  /\ \E now \in clock..MaxTime :
       LET dir == get_timestamped_dir(now) IN
         /\ export_dir' = <<dir>>
         /\ temp_export_dir' = <<get_temp_export_dir(dir)>>
         /\ clock' = dir.timestamp
  /\ pc' = After(pc)
  /\ UNCHANGED outside_paths

outside_disk ==
  <<calls, exports_to_keep, estimator, checkpoint_path, latest, receiver,
    has_global_step, random_seed_set, wrapped, model_fn_call, estimator_spec,
    collections, i, export_dir, temp_export_dir, clock, error, result, fs0, gc_call>>

\* with tf.Session(...): saver_for_restore.restore(session, checkpoint_path) and
\* the choice of local_init_op; nothing on disk changes.
RestoreSession ==
  /\ pc = "restore"
  /\ pc' = After(pc)
  /\ UNCHANGED fs
  /\ UNCHANGED outside_disk

\* fs with directory p holding content.
WithDir(f, p, content) ==
  [q \in DOMAIN f \cup {p} |-> IF q = p THEN content ELSE f[q]]

\* fs without directory p.
WithoutDir(f, p) == [q \in DOMAIN f \ {p} |-> f[q]]

\* SavedModelBuilder(temp_export_dir): refuses an existing directory, else
\* creates it.
CreateBuilder ==
  /\ pc = "builder"
  /\ IF temp_export_dir[1] \in DOMAIN fs
     THEN Raise("AssertionError")
     ELSE /\ fs' = WithDir(fs, temp_export_dir[1], "created")
          /\ pc' = After(pc)
          /\ UNCHANGED outside_disk

\* builder.add_meta_graph_and_variables(...); builder.save(False)
SaveModel ==
  /\ pc = "save"
  /\ fs' = WithDir(fs, temp_export_dir[1], "saved_model")
  /\ pc' = After(pc)
  /\ UNCHANGED outside_disk

\* gfile.Rename(temp_export_dir, export_dir), when it succeeds.
rename(f, oldname, newname) == WithDir(WithoutDir(f, oldname), newname, f[oldname])

RenameSucceeds ==
  /\ pc = "rename"
  /\ fs' = rename(fs, temp_export_dir[1], export_dir[1])
  /\ pc' = After(pc)
  /\ UNCHANGED outside_disk

\* Mutant: a failed rename removes the temp directory before raising.
RenameFailsAndCleansUp ==
  /\ pc = "rename"
  /\ pc' = "raised"
  /\ error' = "RenameError"
  /\ fs' = WithoutDir(fs, temp_export_dir[1])
  /\ FreshLocals
  /\ UNCHANGED <<calls, exports_to_keep, estimator, checkpoint_path, latest, receiver,
                 clock, result, fs0, gc_call>>

\* gfile.Rename raises (a cross-device move, a permission): nothing catches it.
RenameFails ==
  /\ pc = "rename"
  /\ Raise("RenameError")

\* return export_dir, back in export_fn
ReturnExportDir ==
  /\ pc = "return"
  /\ result' = export_dir
  /\ pc' = "garbage_collect"
  /\ FreshLocals
  /\ UNCHANGED <<calls, exports_to_keep, estimator, checkpoint_path, latest, receiver,
                 fs, clock, error, fs0, gc_call>>

\* The export directories garbage collection sees under the base: the ones
\* whose leaf name is a version number.
ExportVersions(f, base) == {p \in DOMAIN f : p.dirname = base /\ p.prefix = ""}

\* The n largest export versions.
largest_export_versions(paths, n) ==
  {p \in paths : Cardinality({q \in paths : q.timestamp > p.timestamp}) < n}

\* garbage_collect_exports(export_dir_base, exports_to_keep): the paths deleted.
garbage_collect_exports(f, base, keep) ==
  IF keep = <<>> THEN {}
  ELSE ExportVersions(f, base) \ largest_export_versions(ExportVersions(f, base), keep[1])

\* Mutant: export_fn calls the garbage collector with collection disabled.
GarbageCollectArgumentsKeepAll == [export_dir_base |-> EXPORT_DIR_BASE, keep |-> <<>>]

\* The arguments export_fn passes to the garbage collector.
GarbageCollectArguments == [export_dir_base |-> EXPORT_DIR_BASE, keep |-> exports_to_keep]

GarbageCollect ==
  /\ pc = "garbage_collect"
  /\ LET a == GarbageCollectArguments
         deleted == garbage_collect_exports(fs, a.export_dir_base, a.keep)
     IN /\ fs' = [q \in DOMAIN fs \ deleted |-> fs[q]]
        /\ gc_call' = <<[export_dir_base |-> a.export_dir_base, keep |-> a.keep,
                         deleted |-> deleted]>>
  /\ pc' = "done"
  /\ UNCHANGED <<calls, exports_to_keep, estimator, checkpoint_path, latest, receiver,
                 has_global_step, random_seed_set, wrapped, model_fn_call,
                 estimator_spec, collections, i, export_dir, temp_export_dir, clock,
                 error, result, fs0>>

\* export_fn returns the export_dir, or the exception reaches its caller.
ExportFnReturns ==
  /\ pc \in {"done", "raised"}
  /\ pc' = "idle"
  /\ UNCHANGED <<calls, exports_to_keep, estimator, checkpoint_path, latest, receiver,
                 has_global_step, random_seed_set, wrapped, model_fn_call,
                 estimator_spec, collections, i, export_dir, temp_export_dir, fs, clock,
                 error, result, fs0, gc_call>>

\* Any statement of export_eval_savedmodel may raise (a graph-construction
\* error, a failed restore, a failed write) or the caller may abandon the
\* export there.
Abort ==
  /\ Running
  /\ pc # "return"
  /\ Raise("Error")

Step(shapes, maxCalls) ==
  \/ ExportFn(maxCalls)
  \/ InvokeReceiver(shapes)
  \/ CreateGlobalStep
  \/ WrapInIdentity
  \/ ModelFn(shapes)
  \/ WriteVersion
  \/ RegisterMetrics
  \/ RegisterPredictions
  \/ RegisterInputExample
  \/ RegisterLabels
  \/ RegisterFeatures
  \/ ResolveCheckpoint
  \/ AllocatePaths
  \/ RestoreSession
  \/ CreateBuilder
  \/ SaveModel
  \/ RenameSucceeds
  \/ RenameFails
  \/ ReturnExportDir
  \/ GarbageCollect
  \/ ExportFnReturns
  \/ Abort

\* One invocation of export_fn, over every shape of receiver and model output.
Next == Step(Shapes, 1)
Spec == Init /\ [][Next]_vars

\* Repeated invocations of export_fn against the same base directory.
RepeatShapes == {1, BareShape}
NextRepeat == Step(RepeatShapes, MaxCalls)
SpecRepeat == Init /\ [][NextRepeat]_vars

\* ------------------------------------------------------------ properties
\* The invocation is past statement name (the graph is still live).
Past(name) == Running /\ IndexOf(pc) > IndexOf(name)

\* The items of a loop over items at statement name that have been through
\* the loop body so far.
Through(name, items) ==
  IF pc = name THEN SubSeq(items, 1, i)
  ELSE IF Past(name) THEN items ELSE <<>>

\* zip(<prefix>/KEY, <prefix>/NODE) decoded.
DecodeNodes(prefix) ==
  LET keys == collections[CollectionName(prefix, KEY_SUFFIX)]
      nodes == collections[CollectionName(prefix, NODE_SUFFIX)]
  IN [k \in 1..Len(keys) |-> <<decode_key(keys[k]), decode_tensor_node(nodes[k])>>]

\* zip(metrics/KEY, metrics/VALUE_OP, metrics/UPDATE_OP) decoded.
DecodeMetrics ==
  LET keys == collections[CollectionName(METRICS_COLLECTION, KEY_SUFFIX)]
      values == collections[CollectionName(METRICS_COLLECTION, VALUE_OP_SUFFIX)]
      updates == collections[CollectionName(METRICS_COLLECTION, UPDATE_OP_SUFFIX)]
  IN [k \in 1..Len(keys) |->
        <<decode_key(keys[k]), decode_tensor_node(values[k]), decode_tensor_node(updates[k])>>]

SameLength(prefix) ==
  Len(collections[CollectionName(prefix, KEY_SUFFIX)])
    = Len(collections[CollectionName(prefix, NODE_SUFFIX)])

\* The directories with a final (version-number) name.
FinalDirs(f) == ExportVersions(f, EXPORT_DIR_BASE)

\* The path the last call of get_timestamped_dir returned.
LastAllocated == TimestampedPath(clock)

\* C1: while an export runs, up to the rename, and after it failed or was
\* interrupted, no directory exists at its final timestamped path: the only
\* final-named directories are those of earlier exports; and a final-named
\* directory appears only by the rename statement, which moves the fully
\* written temp sibling there.
C1_NotVisibleBeforeRename ==
  /\ (Running /\ pc # "return") \/ pc = "raised" => FinalDirs(fs) \subseteq FinalDirs(fs0)
  /\ (export_dir # <<>> /\ pc # "return") => export_dir[1] \notin DOMAIN fs
  /\ \A p \in FinalDirs(fs) : fs[p] = "saved_model"

C1_FinalOnlyByRename ==
  [][\A p \in FinalDirs(fs') \ FinalDirs(fs) :
       /\ pc = "rename"
       /\ p = export_dir[1]
       /\ temp_export_dir[1] = get_temp_export_dir(p)
       /\ temp_export_dir[1] \in DOMAIN fs
       /\ fs[temp_export_dir[1]] = "saved_model"
       /\ temp_export_dir[1] \notin DOMAIN fs']_vars

\* C1: both parts, the invariant and the step property.
C1_ExportAtomicity == []C1_NotVisibleBeforeRename /\ C1_FinalOnlyByRename

\* C1 witness: an export stopped after its temp directory was created.
C1_Witness ==
  /\ pc = "raised"
  /\ get_temp_export_dir(LastAllocated) \in DOMAIN fs \ DOMAIN fs0
  /\ FinalDirs(fs0) # {}

\* C2: an export called without checkpoint_path whose latest-checkpoint lookup
\* finds nothing never gets past the checkpoint statement, returns nothing,
\* and creates no directory; the ValueError it raises there leaves the disk
\* as the invocation found it.
C2_MissingCheckpoint ==
  /\ (pc # "idle" /\ checkpoint_path = <<>> /\ latest = <<>>) =>
       /\ ~Past("checkpoint")
       /\ pc \notin {"garbage_collect", "done"}
       /\ result = <<>>
       /\ fs = fs0
  /\ error = "ValueError" =>
       /\ checkpoint_path = <<>> /\ latest = <<>>
       /\ pc \in {"raised", "idle"}
       /\ fs = fs0

\* C2 witness: the ValueError was raised while earlier exports are on disk.
C2_Witness == pc = "raised" /\ error = "ValueError" /\ DOMAIN fs # {}

\* C3: at every point of the registrations of one export, the KEY and NODE
\* collections of predictions, labels and features (and KEY, VALUE_OP,
\* UPDATE_OP of metrics) have equal lengths, and zipping them gives exactly
\* the entries registered so far, in order.
C3_ParallelCollections ==
  Running =>
    /\ SameLength(PREDICTIONS_COLLECTION)
    /\ SameLength(LABELS_COLLECTION)
    /\ SameLength(FEATURES_COLLECTION)
    /\ Len(collections[CollectionName(METRICS_COLLECTION, KEY_SUFFIX)])
         = Len(collections[CollectionName(METRICS_COLLECTION, VALUE_OP_SUFFIX)])
    /\ Len(collections[CollectionName(METRICS_COLLECTION, KEY_SUFFIX)])
         = Len(collections[CollectionName(METRICS_COLLECTION, UPDATE_OP_SUFFIX)])
    /\ estimator_spec # <<>> =>
         /\ DecodeMetrics = Through("metrics", estimator_spec[1].eval_metric_ops)
         /\ DecodeNodes(PREDICTIONS_COLLECTION) = Through("predictions", PredictionsDict.items)
    /\ estimator_spec = <<>> =>
         /\ DecodeMetrics = <<>>
         /\ DecodeNodes(PREDICTIONS_COLLECTION) = <<>>
    /\ receiver # <<>> =>
         /\ DecodeNodes(LABELS_COLLECTION) = Through("labels", LabelsDict.items)
         /\ DecodeNodes(FEATURES_COLLECTION) = Through("features", FeaturesValue.items)
    /\ receiver = <<>> =>
         /\ DecodeNodes(LABELS_COLLECTION) = <<>>
         /\ DecodeNodes(FEATURES_COLLECTION) = <<>>

\* C3 witness: all four buckets hold the largest mappings.
C3_Witness ==
  /\ pc = "checkpoint"
  /\ Len(DecodeMetrics) = MaxKeys
  /\ Len(DecodeNodes(PREDICTIONS_COLLECTION)) = MaxKeys
  /\ Len(DecodeNodes(LABELS_COLLECTION)) = MaxKeys
  /\ Len(DecodeNodes(FEATURES_COLLECTION)) = MaxKeys

\* C4: once the prediction loop is over, a bare-tensor prediction has exactly
\* one entry in the predictions bucket, under the default predictions key and
\* holding that tensor; a mapping of N predictions has exactly its N entries,
\* in its iteration order.
C4_PredictionsRegistered ==
  Past("predictions") =>
    LET predictions == estimator_spec[1].predictions
        registered == DecodeNodes(PREDICTIONS_COLLECTION)
    IN /\ SameLength(PREDICTIONS_COLLECTION)
       /\ IF predictions.dict
          THEN registered = predictions.items
          ELSE registered = <<<<"predictions", predictions.items[1][2]>>>>

\* C4 witnesses: a bare prediction, and a mapping of MaxKeys predictions.
C4_Witness ==
  /\ Past("predictions")
  /\ ~estimator_spec[1].predictions.dict
  /\ Len(collections[CollectionName(PREDICTIONS_COLLECTION, KEY_SUFFIX)]) = 1

C4_WitnessDict ==
  /\ Past("predictions")
  /\ estimator_spec[1].predictions.dict
  /\ Len(collections[CollectionName(PREDICTIONS_COLLECTION, KEY_SUFFIX)]) = MaxKeys

\* C5 (as claimed): with a bare-tensor features value the export does not
\* fail for that shape, and once the feature loop is over the features
\* bucket holds exactly one KEY/NODE pair.
C5_BareFeaturesNormalized ==
  (receiver # <<>> /\ ~receiver[1].features.dict) =>
    /\ error # "AttributeError"
    /\ Past("features") =>
         /\ Len(collections[CollectionName(FEATURES_COLLECTION, KEY_SUFFIX)]) = 1
         /\ Len(collections[CollectionName(FEATURES_COLLECTION, NODE_SUFFIX)]) = 1

C7_RenameFailure ==
  error = "RenameError" =>
    /\ pc \in {"raised", "idle"}
    /\ result = <<>>
    /\ gc_call = <<>>
    /\ get_temp_export_dir(LastAllocated) \in DOMAIN fs
    /\ fs[get_temp_export_dir(LastAllocated)] = "saved_model"
    /\ LastAllocated \notin DOMAIN fs
    /\ DOMAIN fs = DOMAIN fs0 \cup {get_temp_export_dir(LastAllocated)}

\* C7 witness: a rename failed.
C7_Witness == pc = "raised" /\ error = "RenameError"

\* C8: the garbage collector is called only after the export returned its
\* fully written directory, with (export_dir_base, exports_to_keep); with
\* exports_to_keep = 1 the only export directory left afterwards is the one
\* just exported, whose timestamp is larger than that of every one deleted.
C8_ExportThenCollect ==
  /\ pc = "garbage_collect" =>
       /\ gc_call = <<>>
       /\ result # <<>> /\ result[1] \in DOMAIN fs /\ fs[result[1]] = "saved_model"
  /\ gc_call # <<>> =>
       /\ pc \in {"done", "idle"}
       /\ result # <<>>
       /\ gc_call[1].export_dir_base = EXPORT_DIR_BASE
       /\ gc_call[1].keep = exports_to_keep
  /\ pc = "done" => gc_call # <<>>
  /\ (pc = "done" /\ exports_to_keep = <<1>>) =>
       /\ FinalDirs(fs) = {result[1]}
       /\ result[1] = LastAllocated
       /\ \A q \in gc_call[1].deleted : q.timestamp < result[1].timestamp

\* C8 witness: the second of two exports with exports_to_keep = 1 returned and
\* the first one's directory was collected.
C8_Witness ==
  /\ pc = "done"
  /\ calls = 2
  /\ exports_to_keep = <<1>>
  /\ gc_call[1].deleted # {}

\* C9 (as claimed): whenever the receiver function has been invoked, the graph
\* already holds the global step and the seed.
C9_GlobalStepBeforeReceiver ==
  (Running /\ receiver # <<>>) => (has_global_step /\ random_seed_set)

\* C9 (amended): the receiver function is invoked first, in a graph that has
\* neither global step nor seed; both are created right after it, before the
\* identity wrapping and the model function.
C9_ReceiverBeforeGlobalStep ==
  Running =>
    /\ (has_global_step \/ random_seed_set) => receiver # <<>>
    /\ pc = "eval_input_receiver_fn" => ~has_global_step /\ ~random_seed_set
    /\ receiver # <<>> /\ pc # "create_global_step" => has_global_step /\ random_seed_set
    /\ (wrapped # <<>> \/ model_fn_call # <<>>) => has_global_step /\ random_seed_set

\* C9 witness: the receiver has run and the global step does not exist yet.
C9_Witness == pc = "create_global_step" /\ receiver # <<>> /\ ~has_global_step

\* The tensors of a TensorTypeMaybeDict.
TensorsOf(v) == {v.items[k][2] : k \in 1..Len(v.items)}

\* C10: in either branch model_fn is called with the identity-wrapped features
\* and labels, none of which is a raw receiver tensor, and every node in the
\* labels and features buckets is a raw receiver tensor, never a wrapped one.
C10_WrappedToModelRawToBuckets ==
  Running =>
    /\ model_fn_call # <<>> =>
         /\ model_fn_call[1].features
              = wrap_tensor_or_dict_of_tensors_in_identity(receiver[1].features)
         /\ model_fn_call[1].labels
              = wrap_tensor_or_dict_of_tensors_in_identity(receiver[1].labels)
         /\ \A t \in TensorsOf(model_fn_call[1].features) \cup TensorsOf(model_fn_call[1].labels) :
              /\ t.identity = 1
              /\ t \notin TensorsOf(receiver[1].features) \cup TensorsOf(receiver[1].labels)
    /\ \A k \in 1..Len(collections[CollectionName(LABELS_COLLECTION, NODE_SUFFIX)]) :
         LET n == decode_tensor_node(collections[CollectionName(LABELS_COLLECTION, NODE_SUFFIX)][k])
         IN n \in TensorsOf(receiver[1].labels) /\ n.identity = 0
    /\ \A k \in 1..Len(collections[CollectionName(FEATURES_COLLECTION, NODE_SUFFIX)]) :
         LET n == decode_tensor_node(collections[CollectionName(FEATURES_COLLECTION, NODE_SUFFIX)][k])
         IN n \in TensorsOf(receiver[1].features) /\ n.identity = 0

\* C10 witness: a contrib estimator's model_fn was called and labels and
\* features were registered.
C10_Witness ==
  /\ pc = "checkpoint"
  /\ model_fn_call # <<>>
  /\ model_fn_call[1].branch = "contrib"
  /\ Len(collections[CollectionName(LABELS_COLLECTION, NODE_SUFFIX)]) = MaxKeys
  /\ Len(collections[CollectionName(FEATURES_COLLECTION, NODE_SUFFIX)]) = MaxKeys

====
